---- MODULE Spec2Model ----
(***************************************************************************)
(* Verification model of scrape_exchange: the nested path resolver         *)
(* (YouTubeChannel.parse_nested_dicts), the channel video crawl            *)
(* (YouTubeChannel.get_video_ids / scrape_videos / scrape_video) and the   *)
(* per-video ingest status (YouTubeVideo.scrape / _scrape_video /          *)
(* _transition_state / to_file), the clients' get, convert_number_string,  *)
(* YouTubeThumbnail in parse_thumbnails, the upload tool                   *)
(* (tools/yt_channel_upload.py) and to_dict / from_dict of the YouTube     *)
(* objects.                                                                *)
(***************************************************************************)
EXTENDS Integers, Sequences, FiniteSets, TLC

VARIABLES
    \* ---- parse_nested_dicts call (SpecResolve) ----
    r_pc,        \* "call" before the call, "returned" / "raised" after it
    r_keys,      \* argument keys
    r_data,      \* argument data
    r_type,      \* argument final_type
    r_out,       \* outcome of the call: [exc, val]
    \* ---- channel crawl (Spec) ----
    entry,              \* the method the caller invoked
    pc,                 \* position in it; "done" = returned, "raised" = raised
    exc,                \* the exception that left the entry method, or "none"
    first_run,          \* get_video_ids: first_run
    continuation_token, \* get_video_ids: continuation_token
    video_ids,          \* get_video_ids: video_ids, then self.video_ids
    continuation_item,  \* get_video_ids: continuation_item of the last page
    videos_imported,    \* scrape_videos: videos_imported
    cap,                \* scrape_videos: max_videos_per_channel
    video_id,           \* scrape_video: video_id
    persisted,          \* the ingest status stored for each video id
    n_browse,           \* number of client.browse requests made
    pages,              \* number of content pages the platform served
    nodes_served,       \* number of content nodes in the pages served
    chain_ok,           \* every page served was content nodes, then at most a marker
    located,            \* every answer so far had the shape get_video_ids looks for
    odd_page,           \* the last page served held a rich item with no videoRenderer
    delayed,            \* AsyncYouTubeClient._delay was awaited since the last browse
    used_tokens,        \* the tokens passed to client.browse(continuation=...)
    \* ---- YouTubeVideo.scrape calls of one run (SpecVideo) ----
    v_pc,          \* position in YouTubeVideo.scrape; "returned" / "raised" after it
    v_exc,         \* the exception that left scrape, or "none"
    v_id,          \* scrape: video_id
    save_dir,      \* scrape: whether a save_dir was passed
    v_info,        \* _scrape_video: the kind of video_info the extractor gave
    ingest_status, \* self.ingest_status of the object scrape is working on
    video_status,  \* per id: ingest_status of the last object made for it
    files,         \* the ids that have a record in save_dir
    truncated,     \* the ids whose file in save_dir was opened with 'w' and
                   \* has not got its record
    net_calls,     \* per id: number of network calls made for it
    n_scrapes,     \* number of calls of YouTubeVideo.scrape
    \* ---- one call of a client's get (SpecGet) ----
    g_client,      \* "youtube": AsyncYouTubeClient.get, "exchange": ExchangeClient.get
    g_pc,          \* position in get; "returned" / "raised" after it
    g_retries,     \* get: retries
    g_delay,       \* get: delay
    g_follow,      \* get: follow_redirects
    g_out,         \* what get returned: "none", "text" or "response"
    g_exc,         \* the exception that left get, or "none"
    g_seen,        \* the outcomes of the underlying requests, in order
    g_waits,       \* the seconds slept before each retry, in order
    g_budget,      \* retries as the caller passed it
    g_base,        \* delay as the caller passed it
    \* ---- one call of convert_number_string (SpecConvert) ----
    k_pc,          \* "call" before the call, "returned" / "raised" after it
    number_text,   \* argument number_text
    k_out,         \* outcome of the call: [exc, val]
    \* ---- one call of parse_thumbnails (SpecThumb) ----
    channel_thumbnails,  \* parse_thumbnails: channel_thumbnails
    t_n,                 \* number of thumbnails_data entries gone through
    \* ---- one run of tools/yt_channel_upload.py (SpecUpload) ----
    u_pc,           \* "main", "loop", then "done" or "raised"
    upload_only,    \* args.upload_only
    channel_names,  \* the names read from the .lst files
    u_todo,         \* the names the for loop has not come to yet
    u_saved,        \* the names with a file in save_directory
    u_uploaded,     \* the names with a file in save_directory/uploaded
    u_posted,       \* the names client.post was called for and returned
    u_exc,          \* the exception that ended the run, or "none"
    \* ---- one from_dict(to_dict(x)) (SpecSerial) ----
    s_pc,           \* "call" before it, "returned" / "raised" after it
    s_obj,          \* the object x
    s_out           \* outcome: [exc, val], val the object from_dict made

r_vars == <<r_pc, r_keys, r_data, r_type, r_out>>

c_vars == <<entry, pc, exc, first_run, continuation_token, video_ids,
            continuation_item, videos_imported, cap, video_id, persisted,
            n_browse, pages, nodes_served, chain_ok, located, odd_page, delayed,
            used_tokens>>

v_vars == <<v_pc, v_exc, v_id, save_dir, v_info, ingest_status, video_status,
            files, truncated, net_calls, n_scrapes>>

g_vars == <<g_client, g_pc, g_retries, g_delay, g_follow, g_out, g_exc, g_seen,
            g_waits, g_budget, g_base>>

k_vars == <<k_pc, number_text, k_out>>

\* the groups added after the first four
t_vars == <<channel_thumbnails, t_n>>

u_vars == <<u_pc, upload_only, channel_names, u_todo, u_saved, u_uploaded,
            u_posted, u_exc>>

s_vars == <<s_pc, s_obj, s_out>>

x_vars == <<k_vars, t_vars, u_vars, s_vars>>

vars == <<r_vars, c_vars, v_vars, g_vars, x_vars>>

(***************************************************************************)
(* Python values.  Every value carries its type tag t.                     *)
(***************************************************************************)
None == [t |-> "none", v |-> 0]
PyStr(s) == [t |-> "str", v |-> s]
PyInt(n) == [t |-> "int", v |-> n]
PyList(s) == [t |-> "list", v |-> s]
PyDict(f) == [t |-> "dict", v |-> f]
EmptyDict == PyDict([k \in {} |-> None])

\* A path segment: a string key or a number.
KeyStr(s) == [kt |-> "str", s |-> s, n |-> 0]
KeyInt(n) == [kt |-> "int", s |-> "", n |-> n]

\* Outcome of a call: a returned value or a raised exception.
Return(v) == [exc |-> "none", val |-> v]
Raise(e) == [exc |-> e, val |-> None]

\* key == elem, Python equality between a path segment and a value
PyEq(key, elem) ==
    \/ key.kt = "str" /\ elem.t = "str" /\ elem.v = key.s
    \/ key.kt = "int" /\ elem.t = "int" /\ elem.v = key.n

\* a in b for two strings.  Every string of the model is a single word that
\* is no proper substring of another one, so containment is equality.
IsSubstring(a, b) == a = b

\* isinstance(data, final_type)
IsInstance(data, final_type) == data.t = final_type

\* youtube_channel.py:1274  `key in data`: "yes" / "no", or "TypeError"
\* when data supports no membership test for that key.
YesNo(b) == IF b THEN "yes" ELSE "no"

KeyIn(key, data) ==
    CASE data.t = "dict" -> YesNo(key.kt = "str" /\ key.s \in DOMAIN data.v)
      [] data.t = "list" -> YesNo(\E i \in 1..Len(data.v) : PyEq(key, data.v[i]))
      [] data.t = "str" -> IF key.kt = "str" THEN YesNo(IsSubstring(key.s, data.v))
                           ELSE "TypeError"
      [] OTHER -> "TypeError"

\* `data[key]`: the value, or the exception Python raises.  (A string
\* indexed by a number is outside the model: no path of the code reaches it.)
GetItem(data, key) ==
    CASE data.t = "dict" ->
            IF key.kt = "str" /\ key.s \in DOMAIN data.v THEN Return(data.v[key.s])
            ELSE Raise("KeyError")
      [] data.t = "list" ->
            IF key.kt # "int" THEN Raise("TypeError")
            ELSE IF key.n < Len(data.v) THEN Return(data.v[key.n + 1])
            ELSE Raise("IndexError")
      [] data.t = "str" /\ key.kt = "str" -> Raise("TypeError")
      [] data.t \in {"none", "int"} -> Raise("TypeError")

\* youtube_channel.py:1269-1285
RECURSIVE parse_nested_dicts(_, _, _)
parse_nested_dicts(keys, data, final_type) ==
    IF keys = <<>>
    THEN IF IsInstance(data, final_type) THEN Return(data) ELSE Return(None)
    ELSE LET key == Head(keys)
             isin == KeyIn(key, data)
         IN IF isin = "TypeError" THEN Raise("TypeError")
            ELSE IF isin = "no" THEN Return(None)
            ELSE LET nxt == GetItem(data, key)
                 IN IF nxt.exc # "none" THEN nxt
                    ELSE parse_nested_dicts(Tail(keys), nxt.val, final_type)

(***************************************************************************)
(* Python helpers used by the crawl.                                       *)
(***************************************************************************)
\* `not v`
Falsy(v) ==
    \/ v.t = "none"
    \/ v.t = "str" /\ v.v = ""
    \/ v.t = "int" /\ v.v = 0
    \/ v.t = "list" /\ v.v = <<>>
    \/ v.t = "dict" /\ DOMAIN v.v = {}

\* `d.get(key)`: AttributeError when d is no dict (None, a list, ...)
DictGet(d, key) ==
    IF d.t # "dict" THEN Raise("AttributeError")
    ELSE IF key \in DOMAIN d.v THEN Return(d.v[key]) ELSE Return(None)

RECURSIVE SeqsUpTo(_, _)
SeqsUpTo(S, n) ==
    IF n = 0 THEN {<<>>}
    ELSE LET shorter == SeqsUpTo(S, n - 1)
         IN shorter \cup {Append(s, x) : s \in {q \in shorter : Len(q) = n - 1}, x \in S}

Path(names) == [i \in 1..Len(names) |-> KeyStr(names[i])]

(***************************************************************************)
(* What the platform (InnerTube browse) can answer.                        *)
(***************************************************************************)
VideoIds == {"v1", "v2"}
Tokens == {"", "tok1", "tok2"}

\* a rich item that holds a videoRenderer with a videoId
VideoNode(id) ==
    PyDict([richItemRenderer |->
        PyDict([content |-> PyDict([videoRenderer |-> PyDict([videoId |-> PyStr(id)])])])])
\* a rich item whose videoRenderer has no videoId
NoIdNode ==
    PyDict([richItemRenderer |->
        PyDict([content |-> PyDict([videoRenderer |-> PyDict([title |-> PyStr("t")])])])])
\* a rich item that holds no videoRenderer
OtherNode ==
    PyDict([richItemRenderer |->
        PyDict([content |-> PyDict([playlistRenderer |-> PyDict([title |-> PyStr("t")])])])])
\* a continuation marker carrying a token
MarkerNode(tok) ==
    PyDict([continuationItemRenderer |->
        PyDict([continuationEndpoint |->
            PyDict([continuationCommand |-> PyDict([token |-> PyStr(tok)])])])])

ContentNodes == {VideoNode(id) : id \in VideoIds}
Nodes == ContentNodes \cup {NoIdNode, OtherNode} \cup {MarkerNode(tok) : tok \in Tokens}

MaxPageLen == 3
Pages == SeqsUpTo(Nodes, MaxPageLen)

IsMarker(node) == node.t = "dict" /\ "continuationItemRenderer" \in DOMAIN node.v
IsContent(node) == node \in ContentNodes

HomeTab == PyDict([tabRenderer |-> PyDict([title |-> PyStr("Home")])])
VideosTab ==
    PyDict([tabRenderer |->
        PyDict([title |-> PyStr("Videos"),
                endpoint |-> PyDict([browseEndpoint |-> PyDict([params |-> PyStr("params")])])])])
ShortsTab ==
    PyDict([tabRenderer |->
        PyDict([title |-> PyStr("Shorts"),
                endpoint |-> PyDict([browseEndpoint |-> PyDict([params |-> PyStr("params")])])])])
Browse(tabs) ==
    PyDict([contents |-> PyDict([twoColumnBrowseResultsRenderer |-> PyDict([tabs |-> PyList(tabs)])])])

\* answers to client.browse(channel_id)
ChannelDatas ==
    { Browse(<<HomeTab, VideosTab>>),      \* a channel with a Videos tab
      Browse(<<HomeTab, ShortsTab>>),      \* the second tab is another one
      Browse(<<HomeTab>>),                 \* a single tab
      PyDict([contents |-> EmptyDict]) }   \* no tabs at all

GridTab(contents) ==
    PyDict([tabRenderer |->
        PyDict([content |-> PyDict([richGridRenderer |-> PyDict([contents |-> contents])])])])
\* answers to client.browse(channel_id, params=videos_params)
VideosDatas ==
    {Browse(<<HomeTab, GridTab(PyList(p))>>) : p \in Pages}
        \cup {Browse(<<HomeTab, VideosTab>>)}      \* the tab carries no grid

Continued(action) == PyDict([onResponseReceivedActions |-> PyList(<<action>>)])
\* answers to client.browse(continuation=token)
ContinuedDatas ==
    {Continued(PyDict([appendContinuationItemsAction |->
                          PyDict([continuationItems |-> PyList(p)])])) : p \in Pages}
        \cup {Continued(PyDict([reloadContinuationItemsCommand |-> EmptyDict]))}

(***************************************************************************)
(* YouTubeChannel.get_video_ids, youtube_channel.py:1287-1384              *)
(***************************************************************************)
\* line 1295: while first_run or continuation_token
LoopContinues(first, token) == first \/ token # ""

\* lines 1300-1322: the first browse.  "empty" is `return []`.
FirstBrowse(channel_data) ==
    LET tabs == parse_nested_dicts(
                    Path(<<"contents", "twoColumnBrowseResultsRenderer", "tabs">>),
                    channel_data, "list")
    IN IF tabs.exc # "none" THEN [exc |-> tabs.exc, go |-> "raise"]
       ELSE IF Falsy(tabs.val) \/ Len(tabs.val.v) < 2
       THEN [exc |-> "none", go |-> "empty"]
       ELSE LET tab == tabs.val.v[2]
                has == KeyIn(KeyStr("tabRenderer"), tab)
            IN IF has = "TypeError" THEN [exc |-> "TypeError", go |-> "raise"]
               ELSE IF has = "no" THEN [exc |-> "none", go |-> "empty"]
               ELSE LET renderer == tab.v["tabRenderer"]
                        title == GetItem(renderer, KeyStr("title"))
                    IN IF title.exc # "none" THEN [exc |-> title.exc, go |-> "raise"]
                       ELSE IF title.val # PyStr("Videos")
                       THEN [exc |-> "none", go |-> "empty"]
                       ELSE LET ep == GetItem(renderer, KeyStr("endpoint"))
                                be == IF ep.exc # "none" THEN ep
                                      ELSE GetItem(ep.val, KeyStr("browseEndpoint"))
                                pa == IF be.exc # "none" THEN be
                                      ELSE GetItem(be.val, KeyStr("params"))
                            IN IF pa.exc # "none" THEN [exc |-> pa.exc, go |-> "raise"]
                               ELSE [exc |-> "none", go |-> "videos"]

\* lines 1333-1340: the contents list of the Videos tab
VideosContents(videos_data) ==
    LET tabs == parse_nested_dicts(
                    Path(<<"contents", "twoColumnBrowseResultsRenderer", "tabs">>),
                    videos_data, "list")
        tab == IF tabs.exc # "none" THEN tabs ELSE GetItem(tabs.val, KeyInt(1))
    IN IF tab.exc # "none" THEN tab
       ELSE parse_nested_dicts(
                Path(<<"tabRenderer", "content", "richGridRenderer", "contents">>),
                tab.val, "list")

\* lines 1343-1353: the contents list of a continuation answer
ContinuedContents(data) ==
    LET actions == GetItem(data, KeyStr("onResponseReceivedActions"))
        action == IF actions.exc # "none" THEN actions
                  ELSE GetItem(actions.val, KeyInt(0))
    IN IF action.exc # "none" THEN action
       ELSE parse_nested_dicts(
                Path(<<"appendContinuationItemsAction", "continuationItems">>),
                action.val, "list")

\* lines 1359-1368: the ids of the rich items, in order
RECURSIVE CollectIds(_)
CollectIds(rich_items) ==
    IF rich_items = <<>> THEN [exc |-> "none", ids |-> <<>>]
    ELSE LET video_renderer ==
                 parse_nested_dicts(
                     Path(<<"richItemRenderer", "content", "videoRenderer">>),
                     Head(rich_items), "dict")
             vid == IF video_renderer.exc # "none" THEN video_renderer
                         ELSE DictGet(video_renderer.val, "videoId")
         IN IF vid.exc # "none" THEN [exc |-> vid.exc, ids |-> <<>>]
            ELSE LET rest == CollectIds(Tail(rich_items))
                 IN IF rest.exc # "none" THEN rest
                    ELSE [exc |-> "none",
                          ids |-> IF Falsy(vid.val) THEN rest.ids
                                  ELSE <<vid.val.v>> \o rest.ids]

\* line 1356: *rich_items, continuation_item = contents
SplitLast(contents) ==
    [rich_items |-> SubSeq(contents, 1, Len(contents) - 1),
     continuation_item |-> contents[Len(contents)]]

\* a get_video_ids that never follows a continuation item
NextTokenNone(item) == [exc |-> "none", found |-> FALSE, token |-> ""]

\* lines 1370-1382: the token of the split-off item; found = FALSE is the
\* `return video_ids` of line 1372
NextToken(item) ==
    LET cont_renderer == DictGet(item, "continuationItemRenderer")
    IN IF cont_renderer.exc # "none"
       THEN [exc |-> cont_renderer.exc, found |-> FALSE, token |-> ""]
       ELSE IF Falsy(cont_renderer.val)
       THEN [exc |-> "none", found |-> FALSE, token |-> ""]
       ELSE LET item_data ==
                    parse_nested_dicts(
                        Path(<<"continuationItemRenderer", "continuationEndpoint",
                               "continuationCommand">>),
                        item, "dict")
                token == IF item_data.exc # "none" THEN item_data
                         ELSE GetItem(item_data.val, KeyStr("token"))
            IN IF token.exc # "none"
               THEN [exc |-> token.exc, found |-> FALSE, token |-> ""]
               ELSE [exc |-> "none", found |-> TRUE, token |-> token.val.v]

\* lines 1355-1382: one page.  contents is the outcome of locating the list.
\* go: "raise", "return" (line 1372) or "loop" (back to line 1295).
ProcessPage(contents) ==
    LET fail(e) == [go |-> "raise", exc |-> e, ids |-> <<>>, token |-> "",
                    continuation_item |-> None]
    IN IF contents.exc # "none" THEN fail(contents.exc)
       ELSE IF contents.val.t # "list" THEN fail("TypeError")
       ELSE IF contents.val.v = <<>> THEN fail("ValueError")
       ELSE LET split == SplitLast(contents.val.v)
                got == CollectIds(split.rich_items)
                nxt == NextToken(split.continuation_item)
            IN IF got.exc # "none" THEN fail(got.exc)
               ELSE IF nxt.exc # "none" THEN fail(nxt.exc)
               ELSE [go |-> IF nxt.found THEN "loop" ELSE "return",
                     exc |-> "none", ids |-> got.ids, token |-> nxt.token,
                     continuation_item |-> split.continuation_item]


(***************************************************************************)
(* Names and statuses.                                                     *)
(***************************************************************************)
\* datatypes.py:8-15
IngestStatus == {"none", "pending", "scraped", "uploaded", "failed", "unavailable"}

\* youtube_channel.py:9-80: the names bound in the module's namespace
ModuleGlobals ==
    {"asyncio", "re", "logging", "UUID", "Self", "rmtree", "random", "mkdtemp",
     "Logger", "getLogger", "dataclass", "UTC", "datetime", "orjson",
     "country_converter", "InnerTube", "YoutubeDL", "AsyncYouTubeClient",
     "CONSENT_COOKIES", "HEADERS", "USER_AGENT", "YouTubeVideo", "DENO_PATH",
     "PO_TOKEN_URL", "YouTubeThumbnail", "YouTubeExternalLink",
     "split_quoted_string", "convert_number_string", "_LOGGER",
     "MAX_CHANNEL_VIDEOS_PER_RUN", "HTTP_PREFIX", "HTTPS_PREFIX",
     "YouTubeChannelLink", "YouTubeChannel"}

\* reading a global name of youtube_channel.py
Lookup(name) == IF name \in ModuleGlobals THEN "none" ELSE "NameError"

\* YouTubeChannel.scrape_video, youtube_channel.py:1386-1469.  Its first
\* statement (line 1414) reads IngestStatus, line 1416 reads DataFilterSet.
scrape_video(id) ==
    LET status == Lookup("IngestStatus")
    IN IF status # "none" THEN Raise(status) ELSE Raise(Lookup("DataFilterSet"))

\* youtube_channel.py:922-925: the call of scrape_video; its arguments are
\* evaluated first, and video_table is a global name.
ScrapeVideoCall(id) ==
    LET table == Lookup("video_table")
    IN IF table # "none" THEN Raise(table) ELSE scrape_video(id)

(***************************************************************************)
(* The crawl: scrape_videos -> get_video_ids -> scrape_video               *)
(***************************************************************************)
MaxBrowse == 3
MaxCap == 1

RECURSIVE CountContent(_)
CountContent(page) ==
    IF page = <<>> THEN 0
    ELSE (IF IsContent(Head(page)) THEN 1 ELSE 0) + CountContent(Tail(page))

\* content nodes, then at most one marker that carries a token
WellFormedPage(page) ==
    /\ \A i \in 1..(Len(page) - 1) : IsContent(page[i])
    /\ page # <<>> =>
          \/ IsContent(page[Len(page)])
          \/ page[Len(page)] \in {MarkerNode(tok) : tok \in Tokens \ {""}}

\* no get call is made
GIdle ==
    /\ g_client = "youtube" /\ g_pc = "idle" /\ g_retries = 0 /\ g_delay = 0
    /\ g_follow = TRUE /\ g_out = "none" /\ g_exc = "none"
    /\ g_seen = <<>> /\ g_waits = <<>> /\ g_budget = 0 /\ g_base = 0

\* no YouTubeVideo.scrape call is made
VIdle ==
    /\ v_pc = "idle" /\ v_exc = "none" /\ v_id = "v1" /\ save_dir = FALSE
    /\ v_info = "none" /\ ingest_status = "none"
    /\ video_status = [id \in VideoIds |-> "absent"]
    /\ files = {} /\ truncated = {}
    /\ net_calls = [id \in VideoIds |-> 0] /\ n_scrapes = 0

\* rich items with or without a videoRenderer, one of them without, then
\* at most one marker
OddPage(page) ==
    /\ page # <<>>
    /\ \A i \in 1..(Len(page) - 1) : page[i] \in ContentNodes \cup {NoIdNode, OtherNode}
    /\ \/ page[Len(page)] \in ContentNodes \cup {NoIdNode, OtherNode}
       \/ IsMarker(page[Len(page)])
    /\ \E i \in 1..Len(page) : page[i] = OtherNode

\* convert_number_string is not called
KIdle == k_pc = "idle" /\ number_text = None /\ k_out = Return(None)

\* parse_thumbnails is at its first entry, or is not called
TIdle == channel_thumbnails = {} /\ t_n = 0

\* the upload tool is not run
UIdle ==
    /\ u_pc = "idle" /\ upload_only = FALSE /\ channel_names = {}
    /\ u_todo = {} /\ u_saved = {} /\ u_uploaded = {} /\ u_posted = {}
    /\ u_exc = "none"

\* nothing is serialized
SIdle == s_pc = "idle" /\ s_obj = None /\ s_out = Return(None)

XIdle == KIdle /\ TIdle /\ UIdle /\ SIdle

RIdle ==
    /\ r_pc = "idle" /\ r_keys = <<>> /\ r_data = None /\ r_type = "dict"
    /\ r_out = Return(None)

CInit ==
    /\ entry \in {"get_video_ids", "scrape_videos", "scrape_video"}
    /\ pc = CASE entry = "get_video_ids" -> "gvi_loop"
              [] entry = "scrape_videos" -> "sv_start"
              [] entry = "scrape_video" -> "sv_video"
    /\ exc = "none"
    /\ first_run = TRUE
    /\ continuation_token = ""
    /\ video_ids = <<>>
    /\ continuation_item = None
    /\ videos_imported = 0
    /\ cap \in IF entry = "scrape_videos" THEN 0..MaxCap ELSE {0}
    /\ video_id \in IF entry = "scrape_video" THEN VideoIds ELSE {"v1"}
    /\ persisted \in IF entry = "get_video_ids" THEN {[id \in VideoIds |-> "none"]}
                     ELSE [VideoIds -> IngestStatus]
    /\ n_browse = 0 /\ pages = 0 /\ nodes_served = 0 /\ chain_ok = TRUE
    /\ located = TRUE /\ odd_page = FALSE /\ delayed = FALSE
    /\ used_tokens = {}

Init == RIdle /\ CInit /\ VIdle /\ GIdle /\ XIdle

\* get_video_ids returns ids.  Under scrape_videos (lines 911-919) an empty
\* list is a ValueError, wrapped in a RuntimeError.
GviReturn(ids) ==
    IF entry = "get_video_ids"
    THEN pc' = "done" /\ exc' = "none" /\ video_ids' = ids
    ELSE IF ids = <<>>
    THEN pc' = "raised" /\ exc' = "RuntimeError" /\ video_ids' = <<>>
    ELSE pc' = "sv_loop" /\ exc' = "none" /\ video_ids' = ids

\* get_video_ids raises e.  scrape_videos (lines 916-917) wraps it.
GviRaise(e) ==
    /\ pc' = "raised"
    /\ exc' = IF entry = "get_video_ids" THEN e ELSE "RuntimeError"
    /\ video_ids' = <<>>

\* scrape_videos, lines 899-909: up to the call of get_video_ids
SvStart ==
    /\ pc = "sv_start"
    /\ \E name \in {"", "chan"}, page_html \in {"", "no_data", "no_metadata", "html"} :
          \/ /\ name = ""                          \* line 902
             /\ pc' = "raised" /\ exc' = "ValueError"
          \/ /\ name # "" /\ page_html = ""        \* line 907
             /\ pc' = "raised" /\ exc' = "RuntimeError"
          \/ /\ name # "" /\ page_html = "no_metadata"   \* line 661
             /\ pc' = "raised" /\ exc' = "ValueError"
          \/ /\ name # "" /\ page_html \in {"no_data", "html"}
             /\ pc' = "gvi_loop" /\ exc' = "none"
    /\ UNCHANGED <<entry, first_run, continuation_token, video_ids,
                   continuation_item, videos_imported, cap, video_id, persisted,
                   n_browse, pages, nodes_served, chain_ok, located, odd_page,
                   delayed, used_tokens>>
    /\ UNCHANGED <<r_vars, v_vars, g_vars, x_vars>>

\* get_video_ids, lines 1297-1325: the first browse, of the channel
BrowseChannel ==
    /\ pc = "gvi_loop"
    /\ LoopContinues(first_run, continuation_token)
    /\ continuation_token = ""
    /\ n_browse < MaxBrowse
    /\ \E channel_data \in ChannelDatas :
          LET r == FirstBrowse(channel_data)
          IN /\ CASE r.go = "videos" ->
                       pc' = "gvi_videos" /\ UNCHANGED <<exc, video_ids>>
                  [] r.go = "empty" -> GviReturn(<<>>)
                  [] r.go = "raise" -> GviRaise(r.exc)
             /\ located' = (located /\ r.go = "videos")
             /\ delayed' = (r.go = "videos")          \* line 1325
    /\ first_run' = FALSE
    /\ n_browse' = n_browse + 1
    /\ UNCHANGED <<entry, continuation_token, continuation_item, videos_imported,
                   cap, video_id, persisted, pages, nodes_served, chain_ok,
                   odd_page, used_tokens>>
    /\ UNCHANGED <<r_vars, v_vars, g_vars, x_vars>>

\* What one page fetch yields: ProcessPage on the located contents, with
\* the number of content nodes the platform served in it.
PageOutcome(contents) ==
    LET r == ProcessPage(contents)
        isPage == contents.exc = "none" /\ contents.val.t = "list"
        page == IF isPage THEN contents.val.v ELSE <<>>
    IN [go |-> r.go, exc |-> r.exc, ids |-> r.ids, token |-> r.token,
        continuation_item |-> r.continuation_item,
        served |-> CountContent(page),
        well_formed |-> isPage /\ WellFormedPage(page),
        located |-> isPage,
        odd |-> isPage /\ OddPage(page)]

VideosOutcomes == {PageOutcome(VideosContents(d)) : d \in VideosDatas}
ContinuedOutcomes == {PageOutcome(ContinuedContents(d)) : d \in ContinuedDatas}

\* lines 1355-1384 on one fetched page, and back to line 1295
PageStep(r) ==
    /\ n_browse' = n_browse + 1
    /\ pages' = pages + 1
    /\ nodes_served' = nodes_served + r.served
    /\ chain_ok' = (chain_ok /\ r.well_formed)
    /\ located' = (located /\ r.located)
    /\ odd_page' = r.odd
    /\ continuation_item' = r.continuation_item
    /\ continuation_token' = IF r.go = "loop" THEN r.token ELSE continuation_token
    /\ CASE r.go = "raise" -> GviRaise(r.exc)
         [] r.go = "return" -> GviReturn(video_ids \o r.ids)
         [] r.go = "loop" ->
              IF LoopContinues(first_run, r.token)
              THEN pc' = "gvi_loop" /\ exc' = "none" /\ video_ids' = video_ids \o r.ids
              ELSE GviReturn(video_ids \o r.ids)

\* lines 1327-1340 and 1355-1384: the browse of the Videos tab, the first page
BrowseVideos ==
    /\ pc = "gvi_videos"
    /\ n_browse < MaxBrowse
    /\ \E r \in VideosOutcomes : PageStep(r)
    /\ delayed' = FALSE                       \* no _delay follows this browse
    /\ UNCHANGED <<entry, first_run, videos_imported, cap, video_id, persisted,
                   used_tokens>>
    /\ UNCHANGED <<r_vars, v_vars, g_vars, x_vars>>

\* lines 1342-1353 and 1355-1384: the browse of a continuation page
BrowseContinuation ==
    /\ pc = "gvi_loop"
    /\ LoopContinues(first_run, continuation_token)
    /\ continuation_token # ""
    /\ n_browse < MaxBrowse
    /\ \E r \in ContinuedOutcomes : PageStep(r)
    /\ delayed' = TRUE                        \* line 1347
    /\ used_tokens' = used_tokens \cup {continuation_token}   \* line 1344
    /\ UNCHANGED <<entry, first_run, videos_imported, cap, video_id, persisted>>
    /\ UNCHANGED <<r_vars, v_vars, g_vars, x_vars>>

\* scrape_videos, lines 919-933: the first id of the loop.  A RuntimeError
\* would skip the id (line 929); any other exception leaves scrape_videos
\* as an Exception (lines 930-933).
SvItem ==
    /\ pc = "sv_loop"
    /\ LET r == ScrapeVideoCall(video_ids[videos_imported + 1])
       IN /\ r.exc \notin {"none", "RuntimeError"}
          /\ pc' = "raised"
          /\ exc' = "Exception"
    /\ UNCHANGED <<entry, first_run, continuation_token, video_ids,
                   continuation_item, videos_imported, cap, video_id, persisted,
                   n_browse, pages, nodes_served, chain_ok, located, odd_page,
                   delayed, used_tokens>>
    /\ UNCHANGED <<r_vars, v_vars, g_vars, x_vars>>

\* a call of scrape_video(video_id, table, ...) by a caller that has a table
ScrapeVideo ==
    /\ pc = "sv_video"
    /\ LET r == scrape_video(video_id)
       IN /\ pc' = IF r.exc = "none" THEN "done" ELSE "raised"
          /\ exc' = r.exc
    /\ UNCHANGED <<entry, first_run, continuation_token, video_ids,
                   continuation_item, videos_imported, cap, video_id, persisted,
                   n_browse, pages, nodes_served, chain_ok, located, odd_page,
                   delayed, used_tokens>>
    /\ UNCHANGED <<r_vars, v_vars, g_vars, x_vars>>

Next ==
    \/ SvStart
    \/ BrowseChannel
    \/ BrowseVideos
    \/ BrowseContinuation
    \/ SvItem
    \/ ScrapeVideo

Spec == Init /\ [][Next]_vars

(***************************************************************************)
(* Inputs of the resolver: bounded trees and paths.                        *)
(***************************************************************************)
MaxDepth == 2
MaxPath == 3
MaxList == 1

Leaves == {None, PyInt(0), PyStr("a")}
PathKeys == {KeyStr("a"), KeyInt(0)}
FinalTypes == {"dict", "list", "str", "int"}

RECURSIVE Trees(_)
Trees(d) ==
    IF d = 0 THEN Leaves
    ELSE LET sub == Trees(d - 1)
         IN sub \cup {EmptyDict}
                \cup {PyDict([a |-> x]) : x \in sub}
                \cup {PyList(s) : s \in SeqsUpTo(sub, MaxList)}

\* the crawl is not running
CIdle ==
    /\ entry = "none" /\ pc = "idle" /\ exc = "none"
    /\ first_run = TRUE /\ continuation_token = "" /\ video_ids = <<>>
    /\ continuation_item = None /\ videos_imported = 0 /\ cap = 0
    /\ video_id = "v1" /\ persisted = [id \in VideoIds |-> "none"]
    /\ n_browse = 0 /\ pages = 0 /\ nodes_served = 0 /\ chain_ok = TRUE
    /\ located = TRUE /\ odd_page = FALSE /\ delayed = FALSE
    /\ used_tokens = {}

\* One call of parse_nested_dicts(keys, data, final_type)
Resolve ==
    /\ r_pc = "call"
    /\ r_out' = parse_nested_dicts(r_keys, r_data, r_type)
    /\ r_pc' = IF r_out'.exc = "none" THEN "returned" ELSE "raised"
    /\ UNCHANGED <<r_keys, r_data, r_type>>
    /\ UNCHANGED <<c_vars, v_vars, g_vars, x_vars>>

\* the state before a call of parse_nested_dicts
RInit ==
    /\ r_pc = "call"
    /\ r_keys \in SeqsUpTo(PathKeys, MaxPath)
    /\ r_data \in Trees(MaxDepth)
    /\ r_type \in FinalTypes
    /\ r_out = Return(None)
    /\ CIdle /\ VIdle /\ GIdle /\ XIdle

SpecResolve == RInit /\ [][Resolve]_vars

(***************************************************************************)
(* YouTubeVideo.scrape, youtube_video.py:498-551, called several times in  *)
(* one run (specification SpecVideo).                                      *)
(***************************************************************************)
MaxScrapes == 3

\* What self.client.get(canonical_url) gives (youtube_client.py:86-149): it
\* raises, returns None, or returns a page; the page may lack ytInitialData
\* or the microformat of the player response.
GetOutcomes ==
    {"RuntimeError", "RequestError", "none", "no_data", "no_microformat", "html"}

\* scrape, lines 535-543: the exception of the page extraction, or "none".
\* re.search on None is a TypeError; lines 645 and 671 and 700 raise ValueError.
PageResult(got) ==
    CASE got \in {"RuntimeError", "RequestError"} -> got
      [] got = "none" -> "TypeError"
      [] got \in {"no_data", "no_microformat"} -> "ValueError"
      [] got = "html" -> "none"

\* What download_client.extract_info gives (line 859): an info dict, one
\* without aspect_ratio, one without formats, nothing, or an exception.
InfoKinds ==
    {"info", "no_aspect", "no_formats", "empty", "DownloadError", "Exception"}

\* YouTubeVideo._transition_state, lines 986-999: the new self.ingest_status
_transition_state(status) ==
    IF status \in IngestStatus
    THEN [exc |-> "none", ingest_status |-> status]
    ELSE [exc |-> "ValueError", ingest_status |-> "none"]

VInit ==
    /\ RIdle /\ CIdle /\ GIdle /\ XIdle
    /\ v_pc = "idle" /\ v_exc = "none" /\ v_id = "v1"
    /\ save_dir \in BOOLEAN
    /\ v_info = "none" /\ ingest_status = "none"
    /\ video_status = [id \in VideoIds |-> "absent"]
    /\ files = {} /\ truncated = {}
    /\ net_calls = [id \in VideoIds |-> 0] /\ n_scrapes = 0

\* scrape, lines 517-543: a new object (line 258: NONE), the page request
\* and the extraction of its data
VideoScrape ==
    /\ v_pc \in {"idle", "returned", "raised"}
    /\ n_scrapes < MaxScrapes
    /\ \E id \in VideoIds, got \in GetOutcomes :
          LET e == PageResult(got)
          IN /\ v_id' = id
             /\ ingest_status' = "none"
             /\ video_status' = [video_status EXCEPT ![id] = "none"]
             /\ net_calls' = [net_calls EXCEPT ![id] = @ + 1]
             /\ v_pc' = IF e = "none" THEN "extract" ELSE "raised"
             /\ v_exc' = e
    /\ n_scrapes' = n_scrapes + 1
    /\ v_info' = "none"
    /\ UNCHANGED <<save_dir, files, truncated>>
    /\ UNCHANGED <<r_vars, c_vars, g_vars, x_vars>>

\* _scrape_video, lines 856-884 and on to 929: the extractor call up to the
\* first await, or to the end of the parse
ExtractInfo ==
    /\ v_pc = "extract"
    /\ \E kind \in InfoKinds :
          /\ v_info' = kind
          /\ CASE kind \in {"info", "no_aspect"} ->
                    /\ v_pc' = "parsed"
                    /\ UNCHANGED <<v_exc, ingest_status, video_status>>
               [] kind = "no_formats" ->                      \* line 929
                    /\ v_pc' = "raised" /\ v_exc' = "KeyError"
                    /\ UNCHANGED <<ingest_status, video_status>>
               [] kind = "empty" ->                           \* lines 865-866
                    /\ v_pc' = "nap"
                    /\ UNCHANGED <<v_exc, ingest_status, video_status>>
               [] kind \in {"DownloadError", "Exception"} ->  \* lines 870-884
                    LET t == _transition_state("unavailable")
                    IN /\ ingest_status' = t.ingest_status
                       /\ video_status' =
                              [video_status EXCEPT ![v_id] = t.ingest_status]
                       /\ v_pc' = "sleeping"
                       /\ UNCHANGED v_exc
    /\ net_calls' = [net_calls EXCEPT ![v_id] = @ + 1]
    /\ UNCHANGED <<v_id, save_dir, files, truncated, n_scrapes>>
    /\ UNCHANGED <<r_vars, c_vars, g_vars, x_vars>>

\* _scrape_video, lines 867-869 and 877-880: the RuntimeError of an empty
\* answer is caught by `except Exception`
NapOver ==
    /\ v_pc = "nap"
    /\ LET t == _transition_state("unavailable")
       IN /\ ingest_status' = t.ingest_status
          /\ video_status' = [video_status EXCEPT ![v_id] = t.ingest_status]
    /\ v_pc' = "sleeping"
    /\ UNCHANGED <<v_exc, v_id, save_dir, v_info, files, truncated, net_calls,
                   n_scrapes>>
    /\ UNCHANGED <<r_vars, c_vars, g_vars, x_vars>>

\* _scrape_video, lines 874-876 and 881-884: the RuntimeError leaves scrape
SleepOver ==
    /\ v_pc = "sleeping"
    /\ v_pc' = "raised" /\ v_exc' = "RuntimeError"
    /\ UNCHANGED <<v_id, save_dir, v_info, ingest_status, video_status, files,
                   truncated, net_calls, n_scrapes>>
    /\ UNCHANGED <<r_vars, c_vars, g_vars, x_vars>>

\* scrape, lines 545-551: _is_short (line 967 compares aspect_ratio with 1),
\* then to_file when a save_dir was given, up to its await of f.write:
\* aiofiles.open(filename, 'w') makes the file, or empties the one there
SaveAndReturn ==
    /\ v_pc = "parsed"
    /\ IF v_info = "no_aspect"
       THEN v_pc' = "raised" /\ v_exc' = "TypeError" /\ UNCHANGED <<files, truncated>>
       ELSE IF save_dir
       THEN \E opened \in BOOLEAN :
               IF opened
               THEN /\ v_pc' = "writing" /\ v_exc' = "none"
                    /\ files' = files \ {v_id}
                    /\ truncated' = truncated \cup {v_id}
               ELSE /\ v_pc' = "raised" /\ v_exc' = "OSError"
                    /\ UNCHANGED <<files, truncated>>
       ELSE v_pc' = "returned" /\ v_exc' = "none" /\ UNCHANGED <<files, truncated>>
    /\ UNCHANGED <<v_id, save_dir, v_info, ingest_status, video_status,
                   net_calls, n_scrapes>>
    /\ UNCHANGED <<r_vars, c_vars, g_vars, x_vars>>

\* to_file, lines 566-571: f.write is over and the file is closed
WriteOver ==
    /\ v_pc = "writing"
    /\ files' = files \cup {v_id}
    /\ truncated' = truncated \ {v_id}
    /\ v_pc' = "returned"
    /\ UNCHANGED <<v_exc, v_id, save_dir, v_info, ingest_status, video_status,
                   net_calls, n_scrapes>>
    /\ UNCHANGED <<r_vars, c_vars, g_vars, x_vars>>

\* The task that runs scrape is cancelled while it waits in a sleep of
\* _scrape_video or in the f.write of to_file.  The write runs in an
\* executor thread: it has been done, or the cancellation comes before it
\* has started and the file is closed as it was opened.
Cancel ==
    /\ v_pc \in {"nap", "sleeping", "writing"}
    /\ v_pc' = "raised" /\ v_exc' = "CancelledError"
    /\ IF v_pc = "writing"
       THEN \E written \in BOOLEAN :
               IF written
               THEN files' = files \cup {v_id} /\ truncated' = truncated \ {v_id}
               ELSE UNCHANGED <<files, truncated>>
       ELSE UNCHANGED <<files, truncated>>
    /\ UNCHANGED <<v_id, save_dir, v_info, ingest_status, video_status,
                   net_calls, n_scrapes>>
    /\ UNCHANGED <<r_vars, c_vars, g_vars, x_vars>>

VNext ==
    \/ VideoScrape
    \/ ExtractInfo
    \/ NapOver
    \/ SleepOver
    \/ SaveAndReturn
    \/ WriteOver
    \/ Cancel

SpecVideo == VInit /\ [][VNext]_vars

(***************************************************************************)
(* AsyncYouTubeClient.get, youtube_client.py:86-145, and                   *)
(* ExchangeClient.get, exchange_client.py:107-135 (specification SpecGet). *)
(***************************************************************************)
MaxRetries == 2
MaxDelay == 2

\* What the underlying AsyncClient.get can do: raise, or answer with a
\* status ("303yt": a 303 whose Location holds youtube.com).
Failures == {"ReadTimeout", "RequestError", "Exception"}
Responses == {"200", "204", "303yt", "303other", "404", "500"}

\* a get that retries after every failure
HandlerRetry(failure) == "retry"

\* youtube_client.py:100-126: the except clause that takes a failure
Handler(failure) ==
    CASE failure = "ReadTimeout" -> "retry"        \* line 100
      [] failure = "RequestError" -> "reraise"     \* lines 112-114
      [] OTHER -> "retry"                          \* line 115

\* youtube_client.py:128-129: the answer is a redirect get may follow
Redirects(status) == status = "303yt"

\* a get that takes every 2xx status for a page
StatusOk2xx(status) == status \in {"200", "204"}

\* youtube_client.py:139: resp.status_code != 200 returns None
StatusOk(status) == status = "200"

\* the argument of asyncio.sleep before a retry: youtube_client.py:103 and
\* 118 (`asyncio.sleep(delay-1, delay)`), exchange_client.py:124
BackoffSleep(client, delay) == IF client = "youtube" THEN delay - 1 ELSE delay

\* the seconds asyncio.sleep(t) waits: none for t <= 0
SleepTime(t) == IF t <= 0 THEN 0 ELSE t

GInit ==
    /\ RIdle /\ CIdle /\ VIdle /\ XIdle
    /\ g_client \in {"youtube", "exchange"}
    /\ g_pc = "request"
    /\ g_budget \in 0..MaxRetries /\ g_retries = g_budget
    /\ g_base \in 0..MaxDelay /\ g_delay = g_base
    /\ g_follow \in IF g_client = "youtube" THEN BOOLEAN ELSE {TRUE}
    /\ g_out = "none" /\ g_exc = "none" /\ g_seen = <<>> /\ g_waits = <<>>

GetReturn(out) == g_pc' = "returned" /\ g_out' = out /\ g_exc' = "none"
GetRaise(e) == g_pc' = "raised" /\ g_exc' = e /\ g_out' = "none"

\* one underlying request and what get does with its outcome, up to the
\* next await
GetRequest ==
    /\ g_pc = "request"
    /\ \E o \in Failures \cup Responses :
          /\ g_seen' = Append(g_seen, o)
          /\ IF g_client = "youtube"
             THEN IF o \in Failures
                  THEN /\ IF Handler(o) = "reraise" THEN GetRaise(o)
                          ELSE IF g_retries > 0
                          THEN g_pc' = "backoff" /\ UNCHANGED <<g_out, g_exc>>
                          ELSE GetRaise("RuntimeError")       \* lines 110, 126
                       /\ UNCHANGED g_follow
                  ELSE IF Redirects(o) /\ g_follow           \* lines 128-137
                  THEN /\ g_pc' = "request" /\ g_follow' = FALSE
                       /\ UNCHANGED <<g_out, g_exc>>
                  ELSE /\ IF ~StatusOk(o) THEN GetReturn("none")   \* line 141
                          ELSE IF g_delay # 0                  \* line 143
                          THEN g_pc' = "pace" /\ UNCHANGED <<g_out, g_exc>>
                          ELSE GetReturn("text")
                       /\ UNCHANGED g_follow
             ELSE /\ IF o \in Responses THEN GetReturn("response")
                     ELSE IF g_retries > 0
                     THEN g_pc' = "backoff" /\ UNCHANGED <<g_out, g_exc>>
                     ELSE GetRaise(o)                     \* exchange_client.py:135
                  /\ UNCHANGED g_follow
    /\ UNCHANGED <<g_client, g_retries, g_delay, g_waits, g_budget, g_base>>
    /\ UNCHANGED <<r_vars, c_vars, v_vars, x_vars>>

\* the sleep before a retry and the recursive call: retries - 1, delay * 2,
\* and follow_redirects back at its default
GetBackoff ==
    /\ g_pc = "backoff"
    /\ g_waits' = Append(g_waits, SleepTime(BackoffSleep(g_client, g_delay)))
    /\ g_retries' = g_retries - 1
    /\ g_delay' = g_delay * 2
    /\ g_follow' = TRUE
    /\ g_pc' = "request"
    /\ UNCHANGED <<g_client, g_out, g_exc, g_seen, g_budget, g_base>>
    /\ UNCHANGED <<r_vars, c_vars, v_vars, x_vars>>

\* youtube_client.py:143-145: _delay(0, delay), then return resp.text
GetPace ==
    /\ g_pc = "pace"
    /\ GetReturn("text")
    /\ UNCHANGED <<g_client, g_retries, g_delay, g_follow, g_seen, g_waits,
                   g_budget, g_base>>
    /\ UNCHANGED <<r_vars, c_vars, v_vars, x_vars>>

GNext ==
    \/ GetRequest
    \/ GetBackoff
    \/ GetPace

SpecGet == GInit /\ [][GNext]_vars

(***************************************************************************)
(* convert_number_string (util.py).  In this part a str is the sequence of *)
(* its characters.  float() and the product of two floats are IEEE 754     *)
(* binary64.                                                               *)
(***************************************************************************)
MaxText == 4
Precision == 53

DigitChars == {"0", "1", "2", "3", "4", "5", "6", "7", "8", "9"}
Chars == {"1", "2", "4", ".", ",", "K", "k", "M", "X", " "}
Texts == SeqsUpTo(Chars, MaxText)
IntInputs == {0, 5}

DigitValue(c) ==
    CASE c = "0" -> 0 [] c = "1" -> 1 [] c = "2" -> 2 [] c = "3" -> 3
      [] c = "4" -> 4 [] c = "5" -> 5 [] c = "6" -> 6 [] c = "7" -> 7
      [] c = "8" -> 8 [] c = "9" -> 9

Front(s) == SubSeq(s, 1, Len(s) - 1)

\* the value of a sequence of decimal digits
RECURSIVE DecimalValue(_)
DecimalValue(s) ==
    IF s = <<>> THEN 0
    ELSE 10 * DecimalValue(Front(s)) + DigitValue(s[Len(s)])

\* number_text.split(' ')[0]
FirstWord(s) ==
    LET spaces == {i \in 1..Len(s) : s[i] = " "}
    IN IF spaces = {} THEN s
       ELSE SubSeq(s, 1, (CHOOSE i \in spaces : \A j \in spaces : i <= j) - 1)

\* str.strip()
Strip(s) ==
    LET inked == {i \in 1..Len(s) : s[i] # " "}
    IN IF inked = {} THEN <<>>
       ELSE SubSeq(s, CHOOSE i \in inked : \A j \in inked : i <= j,
                      CHOOSE i \in inked : \A j \in inked : i >= j)

\* str.upper() of one character
Upper(c) ==
    CASE c = "k" -> "K" [] c = "m" -> "M" [] c = "b" -> "B" [] c = "x" -> "X"
      [] OTHER -> c

\* str.isnumeric() of one character
IsNumeric(c) == c \in DigitChars

\* number_text.replace(',', '')
RemoveCommas(s) == SelectSeq(s, LAMBDA c : c # ",")

\* int(s): digits only.  (A sign, an underscore or blanks around the digits
\* are also accepted by int, and are not among Chars.)
ParseInt(s) ==
    IF s # <<>> /\ \A i \in 1..Len(s) : s[i] \in DigitChars
    THEN Return(PyInt(DecimalValue(s)))
    ELSE Raise("ValueError")

\* the decimal literals float() accepts among the sequences over Chars:
\* digits with at most one point, at least one digit.  n / 10^k is the
\* value written.
ParseFloat(s) ==
    LET points == {i \in 1..Len(s) : s[i] = "."}
        digits == SelectSeq(s, LAMBDA c : c # ".")
    IN IF /\ \A i \in 1..Len(s) : s[i] \in DigitChars \cup {"."}
          /\ Cardinality(points) <= 1
          /\ digits # <<>>
       THEN [ok |-> TRUE, n |-> DecimalValue(digits),
             k |-> IF points = {} THEN 0
                   ELSE Len(s) - (CHOOSE i \in points : TRUE)]
       ELSE [ok |-> FALSE, n |-> 0, k |-> 0]

\* ---- binary64 ----
\* A float >= 0 is held as the limbs (10 bits each, first limb first) of the
\* integer it is in units of 2^-(LimbBits * FracLen); at most Precision bits
\* from its first 1 bit on are not 0.
LimbBits == 10
FracLen == 8
Base == 2^LimbBits

RECURSIVE IntLimbs(_)
IntLimbs(n) == IF n = 0 THEN <<>> ELSE Append(IntLimbs(n \div Base), n % Base)

RECURSIVE LimbsInt(_)
LimbsInt(L) == IF L = <<>> THEN 0 ELSE Base * LimbsInt(Front(L)) + L[Len(L)]

\* the first k limbs of r / D after the binary point, and whether more follows
RECURSIVE FracLimbs(_, _, _)
FracLimbs(r, D, k) ==
    IF k = 0 THEN [limbs |-> <<>>, rest |-> r # 0]
    ELSE LET x == FracLimbs((r * Base) % D, D, k - 1)
         IN [limbs |-> <<(r * Base) \div D>> \o x.limbs, rest |-> x.rest]

\* L + 2^j, bit j counted from the last bit of L
RECURSIVE AddBit(_, _)
AddBit(L, j) ==
    IF L = <<>> THEN <<2^j>>
    ELSE IF j >= LimbBits THEN Append(AddBit(Front(L), j - LimbBits), L[Len(L)])
    ELSE LET t == L[Len(L)] + 2^j
         IN IF t < Base THEN Append(Front(L), t)
            ELSE Append(AddBit(Front(L), 0), t - Base)

\* round to nearest, ties to even: the Precision leading bits of L are kept,
\* and one is added to them if the bits dropped (and the sticky rest) are
\* above one half, or are one half and the last bit kept is 1
RoundNearestEven(L, sticky) ==
    LET Bit(j) == (L[Len(L) - (j \div LimbBits)] \div 2^(j % LimbBits)) % 2
        bits == IF L = <<>> THEN 0
                ELSE LimbBits * (Len(L) - 1)
                     + (CHOOSE w \in 1..LimbBits : 2^(w - 1) <= L[1] /\ L[1] < 2^w)
        drop == bits - Precision
        cut == [i \in 1..Len(L) |->
                   LET low == LimbBits * (Len(L) - i)
                   IN IF low >= drop THEN L[i]
                      ELSE IF low + LimbBits <= drop THEN 0
                      ELSE (L[i] \div 2^(drop - low)) * 2^(drop - low)]
        rest == sticky \/ \E j \in 0..(drop - 2) : Bit(j) = 1
        up == Bit(drop - 1) = 1 /\ (rest \/ Bit(drop) = 1)
    IN IF drop <= 0 THEN L
       ELSE IF up THEN AddBit(cut, drop) ELSE cut

\* float('n / D'): the binary64 nearest to n / D
FloatOf(n, D) ==
    LET x == FracLimbs(n % D, D, FracLen)
        all == IntLimbs(n \div D) \o x.limbs
        inked == {i \in 1..Len(all) : all[i] # 0}
        L == IF inked = {} THEN <<>>
             ELSE SubSeq(all, CHOOSE i \in inked : \A j \in inked : i <= j, Len(all))
    IN RoundNearestEven(L, x.rest)

\* L * c + carry
RECURSIVE MulLimbs(_, _, _)
MulLimbs(L, c, carry) ==
    IF L = <<>> THEN IntLimbs(carry)
    ELSE LET t == L[Len(L)] * c + carry
         IN Append(MulLimbs(Front(L), c, t \div Base), t % Base)

\* a * c for a float a and an int c that is exact as a float: the exact
\* product (in two steps for the largest c), rounded once
FloatMul(a, c) ==
    RoundNearestEven(IF c > 1000000
                     THEN MulLimbs(MulLimbs(a, 1000, 0), c \div 1000, 0)
                     ELSE MulLimbs(a, c, 0), FALSE)

\* int(a) of a float a >= 0: the fraction is cut off
FloatTrunc(a) ==
    IF Len(a) <= FracLen THEN 0 ELSE LimbsInt(SubSeq(a, 1, Len(a) - FracLen))

multipliers == [K |-> 1000, M |-> 1000000, B |-> 1000000000]

convert_number_string(text) ==
    IF text.t = "none" \/ text.t = "int" \/ text.v = <<>>       \* lines 22-23
    THEN Return(text)
    ELSE LET word == Strip(FirstWord(text.v))                   \* lines 25-26
         IN IF word = <<>> THEN Raise("IndexError")             \* line 28
            ELSE LET multiplier == Upper(word[Len(word)])
                 IN IF ~IsNumeric(multiplier)
                    THEN LET count_pre == ParseFloat(Front(word))    \* line 35
                         IN IF ~count_pre.ok THEN Raise("ValueError")
                            ELSE IF multiplier \notin DOMAIN multipliers
                            THEN Raise("KeyError")                    \* line 37
                            ELSE Return(PyInt(FloatTrunc(FloatMul(
                                     FloatOf(count_pre.n, 10^(count_pre.k)),
                                     multipliers[multiplier]))))
                    ELSE ParseInt(RemoveCommas(word))            \* lines 40-41

\* the state before a call of convert_number_string
KInit ==
    /\ k_pc = "call"
    /\ number_text \in {None} \cup {PyInt(n) : n \in IntInputs}
                              \cup {PyStr(s) : s \in Texts}
    /\ k_out = Return(None)
    /\ RIdle /\ CIdle /\ VIdle /\ GIdle /\ TIdle /\ UIdle /\ SIdle

\* One call of convert_number_string(number_text)
Convert ==
    /\ k_pc = "call"
    /\ k_out' = convert_number_string(number_text)
    /\ k_pc' = IF k_out'.exc = "none" THEN "returned" ELSE "raised"
    /\ UNCHANGED number_text
    /\ UNCHANGED <<r_vars, c_vars, v_vars, g_vars, t_vars, u_vars, s_vars>>

SpecConvert == KInit /\ [][Convert]_vars

(***************************************************************************)
(* YouTubeThumbnail and the set parse_thumbnails builds.  A url is the     *)
(* sequence of its parts.                                                  *)
(***************************************************************************)
MaxThumbs == 3

HTTPS_PREFIX == <<"https:", "//">>

\* str.startswith
StartsWith(s, prefix) ==
    Len(s) >= Len(prefix) /\ SubSeq(s, 1, Len(prefix)) = prefix

Urls == {<<"https:", "//", "a">>, <<"//", "a">>, <<"https:", "//", "b">>}

\* the entries of thumbnails_data; a preference of None is a missing key
ThumbDatas ==
    [url : Urls, width : {1, 2}, height : {1}, id : {None, PyStr("x")},
     preference : {None, PyInt(1)}]

\* YouTubeThumbnail.__init__(data)
YouTubeThumbnail(data) ==
    [url |-> data.url, width |-> data.width, height |-> data.height,
     id |-> data.id,
     preference |-> IF data.preference = None THEN "" ELSE "1"]    \* str(...)

\* YouTubeThumbnail.__hash__: the string whose hash it is
__hash__(self) == <<self.width, self.height, self.url>>

\* YouTubeThumbnail.__eq__
__eq__(self, thumbnail) ==
    \/ self.url = thumbnail.url
    \/ /\ self.width = thumbnail.width
       /\ self.height = thumbnail.height
       /\ self.id = thumbnail.id
       /\ self.preference = thumbnail.preference

\* set.add: x is left out when the set holds an element with the hash of x
\* that compares equal to x
SetAdd(S, x) ==
    IF \E y \in S : __hash__(y) = __hash__(x) /\ __eq__(y, x) THEN S
    ELSE S \cup {x}

TInit == RIdle /\ CIdle /\ VIdle /\ GIdle /\ KIdle /\ TIdle /\ UIdle /\ SIdle

\* parse_thumbnails, lines 1185-1191: one entry of thumbnails_data
AddThumbnail ==
    /\ t_n < MaxThumbs
    /\ \E thumbnail_data \in ThumbDatas :
          LET url == thumbnail_data.url
              fixed == IF ~StartsWith(url, HTTPS_PREFIX) \/ StartsWith(url, <<"//">>)
                       THEN [thumbnail_data EXCEPT !.url = <<"https:">> \o url]
                       ELSE thumbnail_data
          IN channel_thumbnails' = SetAdd(channel_thumbnails, YouTubeThumbnail(fixed))
    /\ t_n' = t_n + 1
    /\ UNCHANGED <<r_vars, c_vars, v_vars, g_vars, k_vars, u_vars, s_vars>>

SpecThumb == TInit /\ [][AddThumbnail]_vars

(***************************************************************************)
(* tools/yt_channel_upload.py: one run of the upload tool.                 *)
(***************************************************************************)
Channels == {"c1", "c2"}

\* the coroutines a YouTubeChannel object has
ChannelAttrs == {"scrape", "get_videos_page", "scrape_videos", "get_video_ids",
                 "scrape_video"}

\* the state when main is entered
UInit ==
    /\ RIdle /\ CIdle /\ VIdle /\ GIdle /\ KIdle /\ TIdle /\ SIdle
    /\ u_pc = "main"
    /\ upload_only \in BOOLEAN
    /\ channel_names \in SUBSET (Channels \cup {""})
    /\ u_todo = {}
    /\ u_saved \in SUBSET Channels
    /\ u_uploaded \in SUBSET Channels
    /\ u_posted = {}
    /\ u_exc = "none"

\* main, lines 25-36, and scrape_channels, lines 41-43
Main ==
    /\ u_pc = "main"
    /\ IF upload_only
       THEN u_pc' = "done" /\ UNCHANGED <<channel_names, u_todo>>
       ELSE /\ channel_names' = channel_names \ {""}
            /\ u_todo' = channel_names'
            /\ u_pc' = IF u_todo' = {} THEN "done" ELSE "loop"
    /\ UNCHANGED <<upload_only, u_saved, u_uploaded, u_posted, u_exc>>
    /\ UNCHANGED <<r_vars, c_vars, v_vars, g_vars, k_vars, t_vars, s_vars>>

\* scrape_channels, lines 45-82: one turn of the for loop
ProcessChannel ==
    /\ u_pc = "loop"
    /\ \E channel_name \in u_todo, scraped \in BOOLEAN, posted \in BOOLEAN :
          LET more == u_todo \ {channel_name}
              next_pc == IF more = {} THEN "done" ELSE "loop"
          IN /\ u_todo' = more
             /\ IF channel_name \in u_uploaded \/ upload_only       \* lines 52-56
                THEN /\ u_pc' = next_pc
                     /\ UNCHANGED <<u_saved, u_posted, u_exc>>
                ELSE IF channel_name \notin u_saved                  \* line 58
                THEN IF "scrape_about_page" \notin ChannelAttrs      \* line 65
                     THEN /\ u_pc' = "raised" /\ u_exc' = "AttributeError"
                          /\ UNCHANGED <<u_saved, u_posted>>
                     ELSE IF ~scraped
                     THEN /\ u_pc' = "raised" /\ u_exc' = "Exception"
                          /\ UNCHANGED <<u_saved, u_posted>>
                     ELSE /\ u_saved' = u_saved \cup {channel_name}   \* lines 67-72
                          /\ u_posted' = IF posted                    \* lines 75-82
                                         THEN u_posted \cup {channel_name}
                                         ELSE u_posted
                          /\ u_pc' = next_pc /\ UNCHANGED u_exc
                ELSE /\ u_pc' = next_pc
                     /\ UNCHANGED <<u_saved, u_posted, u_exc>>
    /\ UNCHANGED <<upload_only, channel_names, u_uploaded>>
    /\ UNCHANGED <<r_vars, c_vars, v_vars, g_vars, k_vars, t_vars, s_vars>>

UNext ==
    \/ Main
    \/ ProcessChannel

SpecUpload == UInit /\ [][UNext]_vars

(***************************************************************************)
(* to_dict and from_dict of YouTubePlaylist, YouTubeCourseVideo,           *)
(* YouTubeCourse, YouTubePost and YouTubeChannel.  An object is a record   *)
(* of its attributes with its class in cls; a dict is a record of its      *)
(* keys.                                                                   *)
(***************************************************************************)
OptStr == {None, PyStr("a")}

\* datetime.isoformat() and str(datetime): the date with 'T' or ' ' between
\* day and time; datetime.fromisoformat reads both
isoformat(dt, sep) == [t |-> "str", v |-> <<sep, dt.v>>]
fromisoformat(text) == [t |-> "datetime", v |-> text.v[2]]

\* list(a set) and set(a list)
ToList(S) ==
    PyList(CHOOSE q \in SeqsUpTo(S, Cardinality(S)) :
              {q[i] : i \in 1..Len(q)} = S)
ToSet(l) == {l.v[i] : i \in 1..Len(l.v)}

\* str.lstrip('@') of a name given as the sequence of its parts
RECURSIVE lstrip(_)
lstrip(name) ==
    IF name # <<>> /\ name[1] = "@" THEN lstrip(Tail(name)) ELSE name

\* x or 0
OrZero(x) == IF Falsy(x) THEN PyInt(0) ELSE x

Stamp == [t |-> "datetime", v |-> 1]

CourseVideos ==
    [cls : {"YouTubeCourseVideo"}, video_id : OptStr, title : OptStr,
     duration_label : OptStr]

\* the objects serialized: every optional attribute given or None, lists
\* and sets empty or not
Objects ==
    [cls : {"YouTubePlaylist"}, playlist_id : OptStr, title : OptStr,
     video_count : {PyInt(0), PyInt(22)}, thumbnail_url : OptStr,
     channel_id : OptStr, created_timestamp : {Stamp}]
    \cup CourseVideos
    \cup [cls : {"YouTubeCourse"}, playlist_id : OptStr, title : {None},
          video_count : {PyInt(0), PyInt(2)}, thumbnail_url : {None},
          channel_id : OptStr,
          videos : {<<>>} \cup {<<v>> : v \in {w \in CourseVideos : w.title = None}},
          created_timestamp : {Stamp}]
    \cup [cls : {"YouTubePost"}, post_id : OptStr, content_text : OptStr,
          published_time_text : {None}, vote_count : OptStr,
          attachment_type : {None}, video_id : {None},
          image_urls : {<<>>, <<"u">>}, poll_choices : {<<>>, <<"p">>},
          channel_id : {None}, created_timestamp : {Stamp}]
    \cup [cls : {"YouTubeChannel"}, name : {<<"chan">>}, channel_id : OptStr,
          title : OptStr, keywords : {{}, {"k"}}, joined_date : {None, Stamp},
          subscriber_count : {None, PyInt(0), PyInt(5)},
          video_count : {None, PyInt(3)}, view_count : {None, PyInt(7)}]

\* the attributes __eq__ compares
EqFields(cls) ==
    CASE cls = "YouTubePlaylist" ->
           {"playlist_id", "title", "video_count", "thumbnail_url", "channel_id"}
      [] cls = "YouTubeCourseVideo" -> {"video_id", "title", "duration_label"}
      [] cls = "YouTubeCourse" ->
           {"playlist_id", "title", "video_count", "thumbnail_url", "channel_id",
            "videos"}
      [] cls = "YouTubePost" ->
           {"post_id", "content_text", "published_time_text", "vote_count",
            "attachment_type", "video_id", "image_urls", "poll_choices",
            "channel_id"}
      [] cls = "YouTubeChannel" ->
           {"name", "channel_id", "title", "joined_date", "video_count",
            "view_count", "subscriber_count", "keywords"}

\* self == other
Equal(self, other) ==
    /\ other.cls = self.cls
    /\ \A f \in EqFields(self.cls) : self[f] = other[f]

\* the url property of a playlist, a course or a post
UrlOf(id) == IF Falsy(id) THEN None ELSE PyStr(<<"https://www.youtube.com/", id.v>>)

RECURSIVE to_dict(_)
to_dict(self) ==
    CASE self.cls = "YouTubePlaylist" ->
           [playlist_id |-> self.playlist_id, title |-> self.title,
            video_count |-> self.video_count,
            thumbnail_url |-> self.thumbnail_url, channel_id |-> self.channel_id,
            url |-> UrlOf(self.playlist_id),
            created_timestamp |-> isoformat(self.created_timestamp, "T")]
      [] self.cls = "YouTubeCourseVideo" ->
           [video_id |-> self.video_id, title |-> self.title,
            duration_label |-> self.duration_label]
      [] self.cls = "YouTubeCourse" ->
           [playlist_id |-> self.playlist_id, title |-> self.title,
            video_count |-> self.video_count,
            thumbnail_url |-> self.thumbnail_url, channel_id |-> self.channel_id,
            url |-> UrlOf(self.playlist_id),
            videos |-> [i \in 1..Len(self.videos) |-> to_dict(self.videos[i])],
            created_timestamp |-> isoformat(self.created_timestamp, "T")]
      [] self.cls = "YouTubePost" ->
           [post_id |-> self.post_id, content_text |-> self.content_text,
            published_time_text |-> self.published_time_text,
            vote_count |-> self.vote_count,
            attachment_type |-> self.attachment_type, video_id |-> self.video_id,
            image_urls |-> self.image_urls, poll_choices |-> self.poll_choices,
            channel_id |-> self.channel_id, url |-> UrlOf(self.post_id),
            created_timestamp |-> isoformat(self.created_timestamp, "T")]
      [] self.cls = "YouTubeChannel" ->
           [channel_id |-> self.channel_id, channel |-> lstrip(self.name),
            title |-> self.title, keywords |-> ToList(self.keywords),
            joined_date |-> IF self.joined_date # None
                            THEN isoformat(self.joined_date, " ") ELSE None,
            subscriber_count |-> OrZero(self.subscriber_count),
            video_count |-> OrZero(self.video_count),
            view_count |-> OrZero(self.view_count)]

RECURSIVE from_dict(_, _)
from_dict(cls, data) ==
    CASE cls = "YouTubePlaylist" ->
           [cls |-> cls, playlist_id |-> data.playlist_id, title |-> data.title,
            video_count |-> PyInt(data.video_count.v),          \* int(...)
            thumbnail_url |-> data.thumbnail_url, channel_id |-> data.channel_id,
            created_timestamp |-> fromisoformat(data.created_timestamp)]
      [] cls = "YouTubeCourseVideo" ->
           [cls |-> cls, video_id |-> data.video_id, title |-> data.title,
            duration_label |-> data.duration_label]
      [] cls = "YouTubeCourse" ->
           [cls |-> cls, playlist_id |-> data.playlist_id, title |-> data.title,
            video_count |-> PyInt(data.video_count.v),
            thumbnail_url |-> data.thumbnail_url, channel_id |-> data.channel_id,
            videos |-> [i \in 1..Len(data.videos) |->
                           from_dict("YouTubeCourseVideo", data.videos[i])],
            created_timestamp |-> fromisoformat(data.created_timestamp)]
      [] cls = "YouTubePost" ->
           [cls |-> cls, post_id |-> data.post_id,
            content_text |-> data.content_text,
            published_time_text |-> data.published_time_text,
            vote_count |-> data.vote_count,
            attachment_type |-> data.attachment_type, video_id |-> data.video_id,
            image_urls |-> data.image_urls, poll_choices |-> data.poll_choices,
            channel_id |-> data.channel_id,
            created_timestamp |-> fromisoformat(data.created_timestamp)]
      [] cls = "YouTubeChannel" ->
           [cls |-> cls, name |-> lstrip(data.channel),
            channel_id |-> data.channel_id, title |-> data.title,
            keywords |-> ToSet(data.keywords),
            joined_date |-> IF data.joined_date # None
                            THEN fromisoformat(data.joined_date) ELSE None,
            subscriber_count |-> data.subscriber_count,
            video_count |-> data.video_count, view_count |-> data.view_count]

SInit ==
    /\ RIdle /\ CIdle /\ VIdle /\ GIdle /\ KIdle /\ TIdle /\ UIdle
    /\ s_pc = "call" /\ s_obj \in Objects /\ s_out = Return(None)

\* from_dict(to_dict(x))
RoundTrip ==
    /\ s_pc = "call"
    /\ s_out' = Return(from_dict(s_obj.cls, to_dict(s_obj)))
    /\ s_pc' = "returned"
    /\ UNCHANGED s_obj
    /\ UNCHANGED <<r_vars, c_vars, v_vars, g_vars, k_vars, t_vars, u_vars>>

SpecSerial == SInit /\ [][RoundTrip]_vars

(***************************************************************************)
(* Properties of the crawl (specification Spec).                           *)
(***************************************************************************)
\* get_video_ids has returned its list (to its caller, or to scrape_videos)
GviReturned ==
    \/ entry = "get_video_ids" /\ pc = "done"
    \/ entry = "scrape_videos" /\ pc = "sv_loop"

LastPageHasToken ==
    continuation_item \in {MarkerNode(tok) : tok \in Tokens \ {""}}

ProcessedIdIsSkipped ==
    (/\ entry = "scrape_video"
     /\ pc \in {"done", "raised"}
     /\ persisted[video_id] \in {"uploaded", "unavailable"})
        => pc = "done"

ResolveFailsSoft ==
    /\ r_pc # "raised"
    /\ r_pc = "returned" => (r_out.val = None \/ IsInstance(r_out.val, r_type))

(***************************************************************************)
(* Properties of the ingest status (specification SpecVideo).              *)
(***************************************************************************)
\* C9: a record starts at NONE and its first sighting moves it to PENDING, so
\* an item the run has started to process holds one of the six statuses and
\* is no longer at NONE.
SightedLeavesNone ==
    \A id \in VideoIds :
        net_calls[id] > 0 => video_status[id] \in IngestStatus \ {"none"}

\* C10: once an item's status is UNAVAILABLE or UPLOADED, no later step of the
\* run changes it and no network call is made for the item.
TerminalStatusSticks ==
    [][\A id \in VideoIds :
          video_status[id] \in {"unavailable", "uploaded"}
              => /\ video_status'[id] = video_status[id]
                 /\ net_calls'[id] = net_calls[id]]_vars

\* C11: after a successful materialization the item's status is SCRAPED and,
\* when a save_dir was given, its record is persisted.
ScrapedAfterSuccess ==
    v_pc = "returned"
        => /\ video_status[v_id] = "scraped"
           /\ save_dir => v_id \in files

\* C12: a transient scrape failure (the extractor gives nothing, or raises an
\* error other than DownloadError) leaves the status unchanged or, once the
\* retry budget is used up, FAILED; it never marks the item UNAVAILABLE.
TransientFailureKeepsStatus ==
    (v_info \in {"empty", "Exception"} /\ v_pc \in {"sleeping", "raised"})
        => ingest_status \in {"none", "failed"}

NoPartialRecordAfterCancel ==
    v_pc \in {"returned", "raised"} => truncated = {}

(***************************************************************************)
(* Properties of get (specification SpecGet).                              *)
(***************************************************************************)
\* the outcome of the last underlying request
GLast == IF g_seen = <<>> THEN "none" ELSE g_seen[Len(g_seen)]

\* C16: a get with retries = R that only ever sees timeouts makes exactly
\* R + 1 requests, waits base, 2*base, 4*base, ... before its retries, and
\* then fails with RuntimeError.
TimeoutBackoffDoubles ==
    (/\ g_client = "youtube"
     /\ g_pc = "raised"
     /\ \A i \in 1..Len(g_seen) : g_seen[i] = "ReadTimeout")
        => /\ Len(g_seen) = g_budget + 1
           /\ g_exc = "RuntimeError"
           /\ \A i \in 1..Len(g_waits) : g_waits[i] = g_base * 2^(i - 1)

\* C17: a non-2xx answer is retried: get gives up on one only when its
\* retry budget is used up.
NonOkIsRetried ==
    (/\ g_client = "youtube"
     /\ g_pc \in {"returned", "raised"}
     /\ GLast \in {"404", "500"})
        => g_retries = 0

\* C18: AsyncYouTubeClient.get returns None, and does not raise, for every
\* answer whose status is not 200 and that is not a 303 it follows; it
\* returns the text only for status 200.
OnlyOkReturnsText ==
    g_client = "youtube" =>
        /\ GLast \in Responses \ {"200"} =>
              \/ g_pc = "returned" /\ g_out = "none"
              \/ GLast = "303yt" /\ g_pc = "request" /\ ~g_follow
        /\ GLast = "200" => (g_pc = "pace" \/ (g_pc = "returned" /\ g_out = "text"))
        /\ (g_pc = "returned" /\ g_out = "text") => GLast = "200"
        /\ g_pc = "raised" => GLast \in Failures

\* get returned None for a 404, with retries left
NonOkReturnedNone ==
    /\ g_client = "youtube" /\ g_pc = "returned" /\ g_out = "none"
    /\ GLast = "404" /\ g_retries > 0

\* C19: a RequestError is not retried by AsyncYouTubeClient.get: the request
\* that raises it is the last one and get raises the same RequestError, so a
\* call whose first request raises it makes exactly one request.
RequestErrorNotRetried ==
    g_client = "youtube" =>
        /\ \A i \in 1..Len(g_seen) :
              g_seen[i] = "RequestError"
                  => (i = Len(g_seen) /\ g_pc = "raised" /\ g_exc = "RequestError")
        /\ (g_seen # <<>> /\ g_seen[1] = "RequestError") => Len(g_seen) = 1

\* get raised RequestError after one request, with all its retries left
RequestErrorRaisedAtOnce ==
    /\ g_client = "youtube" /\ g_pc = "raised" /\ g_exc = "RequestError"
    /\ g_seen = <<"RequestError">> /\ g_retries = MaxRetries

\* the requests of the call that answered 303 with a youtube.com Location and
\* were followed by a request to that Location
RedirectsFollowed ==
    {i \in 1..Len(g_seen) :
        g_seen[i] = "303yt" /\ (i < Len(g_seen) \/ g_pc = "request")}

\* C29: a 303 to a youtube.com location is followed at most once per
\* top-level AsyncYouTubeClient.get call, whatever redirects, timeouts and
\* retries interleave, and the call makes a bounded number of requests.
RedirectFollowedOnce ==
    g_client = "youtube" =>
        /\ Cardinality(RedirectsFollowed) <= 1
        /\ Len(g_seen) <= 2 * (g_budget + 1)

(***************************************************************************)
(* Properties of convert_number_string (specification SpecConvert).        *)
(***************************************************************************)
\* the first word of the text: a decimal numeral (digits, at most one point,
\* a digit on each side of it)
Numeral(w) ==
    /\ ParseFloat(w).ok
    /\ w[1] # "." /\ w[Len(w)] # "."

\* C22: for a count label whose first word is a numeral with a suffix K, M
\* or B (either case) the result is the number times 1000, 1000000 or
\* 1000000000, and for a first word of digits and thousands commas it is the
\* number the digits write.
SuffixMultiplies ==
    (k_pc # "call" /\ number_text.t = "str" /\ number_text.v # <<>>) =>
        LET w == FirstWord(number_text.v)
            last == IF w = <<>> THEN " " ELSE Upper(w[Len(w)])
        IN /\ (/\ Len(w) >= 2
               /\ last \in DOMAIN multipliers
               /\ Numeral(Front(w))
               /\ (ParseFloat(Front(w)).n * multipliers[last])
                      % 10^(ParseFloat(Front(w)).k) = 0)
                 => k_out = Return(PyInt(
                        (ParseFloat(Front(w)).n * multipliers[last])
                            \div 10^(ParseFloat(Front(w)).k)))
           /\ (/\ w # <<>>
               /\ \A i \in 1..Len(w) : w[i] \in DigitChars)
                 => k_out = Return(PyInt(DecimalValue(w)))

\* the first word is a count: digits with thousands commas, or a numeral
\* with a suffix K, M or B
CountWord(w) ==
    /\ w # <<>>
    /\ \/ /\ \A i \in 1..Len(w) : w[i] \in DigitChars \cup {","}
          /\ w[1] \in DigitChars /\ w[Len(w)] \in DigitChars
       \/ /\ Len(w) >= 2
          /\ Upper(w[Len(w)]) \in DOMAIN multipliers
          /\ Numeral(Front(w))

\* C23: for an empty, non-numeric or malformed count text
\* convert_number_string returns None and does not raise.
MalformedGivesNone ==
    (/\ k_pc # "call"
     /\ number_text.t = "str"
     /\ ~CountWord(FirstWord(number_text.v)))
        => k_pc = "returned" /\ k_out = Return(None)

(***************************************************************************)
(* Properties of YouTubeThumbnail (specification SpecThumb).               *)
(***************************************************************************)
\* C30: thumbnails that compare equal have the same hash, equality is
\* transitive, and the set never holds two thumbnails that compare equal.
NoEqualThumbnailsInSet ==
    /\ \A a, b \in channel_thumbnails :
          /\ __eq__(a, b) => __hash__(a) = __hash__(b)
          /\ (a # b) => ~__eq__(a, b)
    /\ \A a, b, c \in channel_thumbnails :
          (__eq__(a, b) /\ __eq__(b, c)) => __eq__(a, c)

(***************************************************************************)
(* Properties of the upload tool (specification SpecUpload).               *)
(***************************************************************************)
\* C24: a channel whose scrape raises does not abort its siblings: a run in
\* which a scrape raised still comes to every channel name it read.
SiblingsStillProcessed ==
    (u_pc \in {"done", "raised"} /\ u_exc # "none") => u_todo = {}

\* C27: at the end of a run that read the channel names, every name read
\* whose data is saved and not in the uploaded directory was uploaded, and
\* every channel uploaded has its file in the uploaded directory.
SavedIsUploadedAndMoved ==
    (u_pc = "done" /\ ~upload_only) =>
        \A c \in channel_names \ {""} :
            /\ (c \in u_saved /\ c \notin u_uploaded) => c \in u_posted
            /\ c \in u_posted => c \in u_uploaded

(***************************************************************************)
(* Properties of serialization (specification SpecSerial).                 *)
(***************************************************************************)
\* C28: for every playlist, course, course video, post and channel x, with
\* optional fields None or empty too, from_dict(to_dict(x)) compares equal
\* to x.
RoundTripIsEqual ==
    s_pc = "returned" => Equal(s_obj, s_out.val)

====
